---- MODULE Spec2Model ----
(***************************************************************************)
(* A model of src/main.py: the Book record, the Library catalog with its   *)
(* JSON storage file, and the calls main() makes on it.                    *)
(*                                                                         *)
(* Text is a sequence of one-character strings, so that str.isdigit, int,  *)
(* str and str.lower are computed character by character.  A Python value  *)
(* carries its type: [t |-> "int", v |-> 7], [t |-> "str", v |-> <<"a">>], *)
(* [t |-> "list", v |-> <<...>>], [t |-> "dict", v |-> <<<<key, val>>>>].  *)
(***************************************************************************)
EXTENDS Integers, Sequences, FiniteSets, TLC

VARIABLES
    storage,   \* the contents of storage_file
    books,     \* Library.books
    next_id,   \* Library.next_id
    alive,     \* TRUE while a Library object exists (its constructor returned)
    call,      \* the last call made on the Library, with its arguments
    out,       \* what that call printed or raised, in order
    results    \* the books that call listed on the screen

vars == <<storage, books, next_id, alive, call, out, results>>

----------------------------------------------------------------------------
\* Bounds of the model

\* add_book is not called once next_id has passed MaxId
MaxId == 3

----------------------------------------------------------------------------
\* Python values and text

IntV(n) == [t |-> "int", v |-> n]
StrV(s) == [t |-> "str", v |-> s]
ListV(s) == [t |-> "list", v |-> s]
DictV(m) == [t |-> "dict", v |-> m]

\* A lone surrogate code point (U+D800), which utf-8 cannot encode
Surrogate == "U+D800"

Dune == <<"D", "u", "n", "e">>
DUNE == <<"D", "U", "N", "E">>
Dun_ == <<"D", "u", "n", Surrogate>>
Herbert == <<"H", "e", "r", "b", "e", "r", "t">>

\* datetime.now().year
CurrentYear == 2026

Digits == <<"0", "1", "2", "3", "4", "5", "6", "7", "8", "9">>

\* Characters str.isdigit accepts and int() does not: SUPERSCRIPT TWO
SuperscriptDigits == {"^2"}

UpperCase == <<"D", "U", "N", "E", "H">>
LowerCase == <<"d", "u", "n", "e", "h">>

\* str.lower on one character
LowerChar(c) ==
    IF \E i \in DOMAIN UpperCase : UpperCase[i] = c
    THEN LowerCase[CHOOSE i \in DOMAIN UpperCase : UpperCase[i] = c]
    ELSE c

\* str.lower
Lower(s) == [i \in DOMAIN s |-> LowerChar(s[i])]

IsDecimalChar(c) == \E i \in DOMAIN Digits : Digits[i] = c

DigitValue(c) == (CHOOSE i \in DOMAIN Digits : Digits[i] = c) - 1

\* str.isdigit: a non-empty text all of whose characters are digits
isdigit(s) ==
    /\ Len(s) > 0
    /\ \A i \in DOMAIN s : IsDecimalChar(s[i]) \/ s[i] \in SuperscriptDigits

\* int(s) is defined on decimal digits (of the texts isdigit accepts);
\* on any other text it raises ValueError
IntRaises(s) == Len(s) = 0 \/ \E i \in DOMAIN s : ~IsDecimalChar(s[i])

RECURSIVE IntOf(_)
IntOf(s) ==
    IF Len(s) = 0 THEN 0
    ELSE 10 * IntOf(SubSeq(s, 1, Len(s) - 1)) + DigitValue(s[Len(s)])

\* str(n) for n >= 0
RECURSIVE StrOfNat(_)
StrOfNat(n) ==
    IF n < 10 THEN <<Digits[n + 1]>>
    ELSE Append(StrOfNat(n \div 10), Digits[(n % 10) + 1])

\* str(value), for the values a Book field holds
Str(x) == IF x.t = "int" THEN StrOfNat(x.v) ELSE x.v

\* Whether the utf-8 codec encodes the text
Utf8Encodes(s) == \A i \in DOMAIN s : s[i] # Surrogate

RECURSIVE SeqMap(_, _)
SeqMap(Op(_), s) ==
    IF Len(s) = 0 THEN <<>> ELSE <<Op(Head(s))>> \o SeqMap(Op, Tail(s))

----------------------------------------------------------------------------
\* class Book

\* The two statuses of the source, "v nalichii" (in stock) and "vydana" (lent
\* out), each written as a text of one symbol
Available == <<"v nalichii">>
CheckedOut == <<"vydana">>

\* Book.__init__
Book(book_id, title, author, year) ==
    [id |-> book_id, title |-> title, author |-> author, year |-> year,
     status |-> StrV(Available)]

\* The value of a field of a book
GetField(b, key) ==
    CASE key = "id" -> b.id
      [] key = "title" -> b.title
      [] key = "author" -> b.author
      [] key = "year" -> b.year
      [] key = "status" -> b.status

\* Book.to_dict: the dictionary, as its items in insertion order
to_dict(b) ==
    DictV(<< <<"id", b.id>>, <<"title", b.title>>, <<"author", b.author>>,
             <<"year", b.year>>, <<"status", b.status>> >>)

\* data[key] on a value: the exception it raises, or "none"
SubscriptRaises(data, key) ==
    IF data.t # "dict" THEN "TypeError"
    ELSE IF \E i \in DOMAIN data.v : data.v[i][1] = key THEN "none"
    ELSE "KeyError"

\* data[key] on a dictionary holding key
Subscript(data, key) ==
    data.v[CHOOSE i \in DOMAIN data.v : data.v[i][1] = key][2]

BookKeys == <<"id", "title", "author", "year", "status">>

\* Book.from_dict: the exception of the first subscript that raises
from_dict_raises(data) ==
    IF \A i \in DOMAIN BookKeys : SubscriptRaises(data, BookKeys[i]) = "none"
    THEN "none"
    ELSE SubscriptRaises(data,
             BookKeys[CHOOSE i \in DOMAIN BookKeys :
                 /\ SubscriptRaises(data, BookKeys[i]) # "none"
                 /\ \A j \in 1..(i - 1) : SubscriptRaises(data, BookKeys[j]) = "none"])

\* from_dict without line 38: the status stays the default of __init__
from_dict_default_status(data) ==
    Book(Subscript(data, "id"), Subscript(data, "title"),
         Subscript(data, "author"), Subscript(data, "year"))

\* Book.from_dict on a dictionary holding the five keys
from_dict(data) ==
    [Book(Subscript(data, "id"), Subscript(data, "title"),
          Subscript(data, "author"), Subscript(data, "year"))
     EXCEPT !.status = Subscript(data, "status")]

----------------------------------------------------------------------------
\* The storage file

File(kind, data) == [kind |-> kind, data |-> data]

\* No file of that name
Absent == File("absent", ListV(<<>>))

\* A file whose text json.load rejects with JSONDecodeError: text that was
\* never JSON, or the beginning of a document whose writing was cut short
Undecodable == File("undecodable", ListV(<<>>))

\* A file holding the JSON text of data
Json(data) == File("json", data)

\* Whether file.write encodes every text of a value json.dump writes
RECURSIVE ValueEncodes(_)
ValueEncodes(x) ==
    CASE x.t = "int" -> TRUE
      [] x.t = "str" -> Utf8Encodes(x.v)
      [] x.t = "list" -> \A i \in DOMAIN x.v : ValueEncodes(x.v[i])
      [] x.t = "dict" -> \A i \in DOMAIN x.v : ValueEncodes(x.v[i][2])

----------------------------------------------------------------------------
\* class Library

\* for book in data: the values the comprehension of load_books iterates,
\* when data is iterable (a list gives its elements, a dictionary its keys,
\* a text its characters)
Iterate(data) ==
    CASE data.t = "list" -> data.v
      [] data.t = "dict" -> [i \in DOMAIN data.v |-> StrV(<<data.v[i][1]>>)]
      [] data.t = "str" -> [i \in DOMAIN data.v |-> StrV(<<data.v[i]>>)]

\* Library.load_books: what it raises, whether it prints its warning, and
\* the list it returns
load_books(file) ==
    CASE file.kind = "absent" ->
             [raises |-> "none", warned |-> FALSE, books |-> <<>>]
      [] file.kind = "undecodable" ->
             [raises |-> "none", warned |-> TRUE, books |-> <<>>]
      [] file.kind = "json" ->
             IF file.data.t = "int"
             THEN [raises |-> "TypeError", warned |-> FALSE, books |-> <<>>]
             ELSE LET items == Iterate(file.data)
                      bad == {i \in DOMAIN items : from_dict_raises(items[i]) # "none"}
                  IN  IF bad = {}
                      THEN [raises |-> "none", warned |-> FALSE,
                            books |-> SeqMap(from_dict, items)]
                      ELSE [raises |-> from_dict_raises(
                                items[CHOOSE i \in bad : \A j \in bad : i <= j]),
                            warned |-> FALSE, books |-> <<>>]

\* Whether json.dump of the books meets a text the file cannot encode
save_raises(bks) == \E i \in DOMAIN bks : ~ValueEncodes(to_dict(bks[i]))

\* Library.save_books: the file it leaves.  open(..., "w") empties the file
\* before json.dump writes; a UnicodeEncodeError part of the way leaves the
\* beginning of the document
save_books(bks) ==
    IF save_raises(bks) THEN Undecodable
    ELSE Json(ListV(SeqMap(to_dict, bks)))

\* What save_books prints
save_prints(bks) == IF save_raises(bks) THEN <<"save_error">> ELSE <<>>

RECURSIVE MaxOf(_)
MaxOf(s) ==
    IF Len(s) = 1 THEN s[1]
    ELSE LET m == MaxOf(Tail(s)) IN IF s[1] >= m THEN s[1] ELSE m

\* max(...) + 1 raises TypeError unless the ids are numbers
get_next_id_raises(bks) == \E i \in DOMAIN bks : bks[i].id.t # "int"

\* get_next_id counting the books instead of taking the greatest id
get_next_id_by_count(bks) == Len(bks) + 1

\* Library.get_next_id
get_next_id(bks) ==
    IF Len(bks) = 0 THEN 1
    ELSE MaxOf([i \in DOMAIN bks |-> bks[i].id.v]) + 1

\* Library.__init__ on a storage file: the Library it builds, or the
\* exception that ends the process
Library(file) ==
    LET loaded == load_books(file)
        warning == IF loaded.warned THEN <<"load_warning">> ELSE <<>>
    IN  IF loaded.raises # "none"
        THEN [alive |-> FALSE, books |-> <<>>, next_id |-> 0,
              out |-> <<loaded.raises>>]
        ELSE IF get_next_id_raises(loaded.books)
        THEN [alive |-> FALSE, books |-> <<>>, next_id |-> 0,
              out |-> warning \o <<"TypeError">>]
        ELSE [alive |-> TRUE, books |-> loaded.books,
              next_id |-> get_next_id(loaded.books), out |-> warning]

\* validate_year with the current year left out of the range
validate_year_exclusive(year) ==
    IF ~isdigit(year) THEN "invalid_year"
    ELSE IF IntRaises(year) THEN "invalid_literal"
    ELSE IF ~(0 < IntOf(year) /\ IntOf(year) < CurrentYear) THEN "invalid_year"
    ELSE "none"

\* Library.validate_year: the ValueError it raises, or "none"
validate_year(year) ==
    IF ~isdigit(year) THEN "invalid_year"
    ELSE IF IntRaises(year) THEN "invalid_literal"
    ELSE IF ~(0 < IntOf(year) /\ IntOf(year) <= CurrentYear) THEN "invalid_year"
    ELSE "none"

\* update_status without its membership test
ValidStatus_any(new_status) == TRUE

\* new_status in ["v nalichii", "vydana"]
ValidStatus(new_status) == new_status \in {Available, CheckedOut}

\* The index of the first book whose id equals book_id, 0 when there is none
\* (the for loops of remove_book and update_status)
FirstWithId(bks, book_id) ==
    IF \E i \in DOMAIN bks : bks[i].id = IntV(book_id)
    THEN CHOOSE i \in DOMAIN bks :
             /\ bks[i].id = IntV(book_id)
             /\ \A j \in 1..(i - 1) : bks[j].id # IntV(book_id)
    ELSE 0

\* list.pop() in the place of list.remove(book)
RemoveAt_last(bks, i) == SubSeq(bks, 1, Len(bks) - 1)

\* list.remove of the element at index i
RemoveAt(bks, i) == SubSeq(bks, 1, i - 1) \o SubSeq(bks, i + 1, Len(bks))

\* The key of a criterion names a field of the book: getattr(book, key)
GetAttr(b, key) ==
    CASE key = "title" -> b.title
      [] key = "author" -> b.author
      [] key = "year" -> b.year

\* all(...) in the place of any(...)
Matches_all(b, criteria) ==
    \A i \in DOMAIN criteria :
        Lower(Str(GetAttr(b, criteria[i][1]))) = Lower(criteria[i][2])

\* any(str(getattr(book, key)).lower() == str(value).lower() ...) over the
\* criteria, a sequence of <<key, value>>
Matches(b, criteria) ==
    \E i \in DOMAIN criteria :
        Lower(Str(GetAttr(b, criteria[i][1]))) = Lower(criteria[i][2])

\* The loop of search_books: the books appended to results, in order
RECURSIVE search_results(_, _)
search_results(bks, criteria) ==
    IF Len(bks) = 0 THEN <<>>
    ELSE (IF Matches(Head(bks), criteria) THEN <<Head(bks)>> ELSE <<>>)
             \o search_results(Tail(bks), criteria)

----------------------------------------------------------------------------
\* The inputs of the calls

Titles == {Dune, Dun_}
Authors == {Herbert}
YearTexts ==
    {<<"0">>, <<"-", "5">>, <<"a", "b", "c">>, <<"^2">>,
     StrOfNat(CurrentYear), StrOfNat(CurrentYear + 1)}
BookIds == 1..MaxId
Statuses == {Available, CheckedOut, <<"lost">>}

\* The dictionary main() builds from the three prompts: a criterion left
\* empty is dropped
Criteria ==
    {SelectSeq(<< <<"title", t>>, <<"author", a>>, <<"year", y>> >>,
               LAMBDA kv : kv[2] # <<>>) :
        t \in {<<>>, DUNE}, a \in {<<>>, Dune}, y \in {<<>>, StrOfNat(CurrentYear)}}

----------------------------------------------------------------------------
\* The calls

\* Library.add_book
add_book(title, author, year) ==
    /\ alive
    /\ next_id <= MaxId
    /\ call' = [op |-> "add_book", title |-> title, author |-> author, year |-> year]
    /\ results' = <<>>
    /\ IF validate_year(year) # "none"
       THEN /\ out' = <<validate_year(year)>>
            /\ UNCHANGED <<storage, books, next_id, alive>>
       ELSE LET book == Book(IntV(next_id), StrV(title), StrV(author), IntV(IntOf(year)))
                appended == Append(books, book)
            IN  /\ books' = appended
                /\ next_id' = next_id + 1
                /\ storage' = save_books(appended)
                /\ out' = save_prints(appended) \o <<"added">>
                /\ UNCHANGED alive

\* Library.remove_book
remove_book(book_id) ==
    /\ alive
    /\ call' = [op |-> "remove_book", book_id |-> book_id]
    /\ results' = <<>>
    /\ LET i == FirstWithId(books, book_id)
       IN  IF i # 0
           THEN /\ books' = RemoveAt(books, i)
                /\ storage' = save_books(RemoveAt(books, i))
                /\ out' = save_prints(RemoveAt(books, i)) \o <<"removed">>
                /\ UNCHANGED <<next_id, alive>>
           ELSE /\ out' = <<"not_found">>
                /\ UNCHANGED <<storage, books, next_id, alive>>

\* Library.search_books
search_books(criteria) ==
    /\ alive
    /\ call' = [op |-> "search_books", criteria |-> criteria]
    /\ results' = search_results(books, criteria)
    /\ out' = IF search_results(books, criteria) # <<>>
              THEN <<"found">> ELSE <<"none_found">>
    /\ UNCHANGED <<storage, books, next_id, alive>>

\* Library.display_books
display_books ==
    /\ alive
    /\ call' = [op |-> "display_books"]
    /\ results' = books
    /\ out' = IF books = <<>> THEN <<"empty">> ELSE <<"list">>
    /\ UNCHANGED <<storage, books, next_id, alive>>

\* Library.update_status
update_status(book_id, new_status) ==
    /\ alive
    /\ call' = [op |-> "update_status", book_id |-> book_id, new_status |-> new_status]
    /\ results' = <<>>
    /\ LET i == FirstWithId(books, book_id)
       IN  IF i # 0
           THEN IF ValidStatus(new_status)
                THEN LET updated == [books EXCEPT ![i].status = StrV(new_status)]
                     IN  /\ books' = updated
                         /\ storage' = save_books(updated)
                         /\ out' = save_prints(updated) \o <<"updated">>
                         /\ UNCHANGED <<next_id, alive>>
                ELSE /\ out' = <<"invalid_status">>
                     /\ UNCHANGED <<storage, books, next_id, alive>>
           ELSE /\ out' = <<"not_found">>
                /\ UNCHANGED <<storage, books, next_id, alive>>

\* The process ends (choice 6, or the exception of a constructor) and main()
\* runs again on the same storage file
Restart ==
    /\ call' = [op |-> "__init__"]
    /\ results' = <<>>
    /\ alive' = Library(storage).alive
    /\ books' = Library(storage).books
    /\ next_id' = Library(storage).next_id
    /\ out' = Library(storage).out
    /\ UNCHANGED storage

----------------------------------------------------------------------------
\* The storage files main() may find

GoodEntry ==
    DictV(<< <<"id", IntV(1)>>, <<"title", StrV(Dune)>>, <<"author", StrV(Herbert)>>,
             <<"year", IntV(2000)>>, <<"status", StrV(Available)>> >>)

\* The entry with one key left out
Without(entry, key) == DictV(SelectSeq(entry.v, LAMBDA kv : kv[1] # key))

\* The entry with another value under one key
With(entry, key, value) ==
    DictV([i \in DOMAIN entry.v |->
              IF entry.v[i][1] = key THEN <<key, value>> ELSE entry.v[i]])

\* Files this program wrote, or none
OwnFiles == {Absent}

\* Files of any origin: edited by hand, or written by another program
AnyFiles ==
    OwnFiles \cup
    {Undecodable,
     Json(ListV(<<>>)),
     Json(ListV(<<GoodEntry>>)),
     Json(ListV(<<GoodEntry, Without(GoodEntry, "status")>>)),
     Json(ListV(<<Without(GoodEntry, "id")>>)),
     Json(ListV(<<With(GoodEntry, "status", StrV(<<"lost">>))>>)),
     Json(ListV(<<With(GoodEntry, "id", StrV(<<"1">>))>>)),
     Json(ListV(<<With(GoodEntry, "year", StrV(<<"2", "0", "0", "0">>))>>)),
     Json(ListV(<<With(GoodEntry, "title", IntV(7))>>)),
     Json(ListV(<<IntV(1)>>)),
     Json(IntV(5)),
     Json(DictV(<< <<"id", IntV(1)>> >>))}

InitOn(files) ==
    /\ storage \in files
    /\ call = [op |-> "__init__"]
    /\ results = <<>>
    /\ alive = Library(storage).alive
    /\ books = Library(storage).books
    /\ next_id = Library(storage).next_id
    /\ out = Library(storage).out

Init == InitOn(OwnFiles)

InitAnyFile == InitOn(AnyFiles)

Next ==
    \/ \E title \in Titles, author \in Authors, year \in YearTexts :
           add_book(title, author, year)
    \/ \E book_id \in BookIds : remove_book(book_id)
    \/ \E criteria \in Criteria : search_books(criteria)
    \/ display_books
    \/ \E book_id \in BookIds, new_status \in Statuses :
           update_status(book_id, new_status)
    \/ Restart

\* The program started on no file or on a file it wrote
Spec == Init /\ [][Next]_vars

\* The program started on a file of any origin
SpecAnyFile == InitAnyFile /\ [][Next]_vars

----------------------------------------------------------------------------
\* Notions the properties are stated in

\* The call printed (or raised) m
Has(o, m) == \E i \in DOMAIN o : o[i] = m

\* The call printed one of its success messages
ReportsSuccess(o) == Has(o, "added") \/ Has(o, "removed") \/ Has(o, "updated")

\* Some record has this id
Holds(bks, book_id) == \E i \in DOMAIN bks : bks[i].id = IntV(book_id)

\* The ids of the records, in order
IdsOf(bks) == [i \in DOMAIN bks |-> bks[i].id]

\* The two values of the status enumeration
EnumStatuses == {StrV(Available), StrV(CheckedOut)}

\* A fresh Library on the file holds exactly these records
ReloadsAs(file, bks) == Library(file).alive /\ Library(file).books = bks

\* A text of decimal digits whose value lies in (0, CurrentYear]
YearTextInRange(s) ==
    /\ Len(s) > 0
    /\ \A i \in DOMAIN s : s[i] \in {Digits[k] : k \in DOMAIN Digits}
    /\ 0 < IntOf(s)
    /\ IntOf(s) <= CurrentYear

\* Two texts equal up to the case of their letters
SameLetter(c, d) ==
    \/ c = d
    \/ \E k \in DOMAIN UpperCase :
           {c, d} = {UpperCase[k], LowerCase[k]}
EqualIgnoringCase(a, b) ==
    /\ Len(a) = Len(b)
    /\ \A i \in DOMAIN a : SameLetter(a[i], b[i])

\* The field of a record a criterion names, as text
FieldText(b, key) ==
    CASE key = "title" -> b.title.v
      [] key = "author" -> b.author.v
      [] key = "year" -> StrOfNat(b.year.v)

\* At least one criterion equals the record's field
MeetsOneCriterion(b, criteria) ==
    \E i \in DOMAIN criteria :
        EqualIgnoringCase(FieldText(b, criteria[i][1]), criteria[i][2])

----------------------------------------------------------------------------
\* C1: on a Library built on no file or on a file it wrote, the ids of the
\* books are pairwise distinct numbers and next_id is greater than each of
\* them, so the id add_book assigns is not one already present, also after
\* removals have left gaps.
C1_IdsDistinctBelowNextId ==
    alive =>
        /\ \A i, j \in DOMAIN books : i # j => books[i].id # books[j].id
        /\ \A i \in DOMAIN books : books[i].id.t = "int" /\ books[i].id.v < next_id

\* add_book has just assigned an id while an earlier id is missing
C1_Witness ==
    /\ alive
    /\ call.op = "add_book"
    /\ Has(out, "added")
    /\ Len(books) >= 2
    /\ Len(books) < next_id - 1

\* C2: when the write inside a mutating call fails on text the file cannot
\* encode, books and next_id are as before the call and the call reports the
\* failure, not a success.
C2_FailedSaveLeavesMemoryAndReportsFailure ==
    [][Has(out', "save_error") =>
          /\ books' = books
          /\ next_id' = next_id
          /\ ~ReportsSuccess(out')]_vars

\* C3, as claimed: update_status with a status outside the enumeration
\* reports the invalid status for every id, and changes nothing.
C3_InvalidStatusReportedForEveryId ==
    [][(call'.op = "update_status" /\ ~ValidStatus(call'.new_status)) =>
          /\ out' = <<"invalid_status">>
          /\ UNCHANGED <<books, next_id, storage>>]_vars

\* C3, amended: update_status with a status outside the enumeration changes
\* neither books, next_id nor the file; it reports the invalid status when a
\* book has the id and reports not-found when none has.
C3_InvalidStatusChangesNothing ==
    [][(call'.op = "update_status" /\ call'.new_status \notin {Available, CheckedOut}) =>
          /\ UNCHANGED <<books, next_id, storage>>
          /\ out' = IF Holds(books, call'.book_id)
                    THEN <<"invalid_status">> ELSE <<"not_found">>]_vars

\* update_status has refused a status outside the enumeration for a book held
C3_Witness ==
    /\ call.op = "update_status"
    /\ call.new_status \notin {Available, CheckedOut}
    /\ Holds(books, call.book_id)
    /\ out = <<"invalid_status">>

\* C4: a call whose save succeeded leaves in the file exactly the books, in
\* order; and as long as no save has failed (every text of the books can be
\* encoded) a fresh Library on the file holds the same books, field by field
\* and in the same order.
C4_FileHoldsBooks ==
    alive =>
        /\ (ReportsSuccess(out) /\ ~Has(out, "save_error")) =>
               /\ storage.kind = "json"
               /\ storage.data.t = "list"
               /\ Len(storage.data.v) = Len(books)
               /\ \A i \in DOMAIN books :
                      \A k \in DOMAIN BookKeys :
                          /\ storage.data.v[i].v[k][1] = BookKeys[k]
                          /\ storage.data.v[i].v[k][2] = GetField(books[i], BookKeys[k])
        /\ (\A i \in DOMAIN books :
                Utf8Encodes(books[i].title.v) /\ Utf8Encodes(books[i].author.v))
             => ReloadsAs(storage, books)

\* A fresh Library has loaded three books, one of them lent out
C4_Witness ==
    /\ alive
    /\ call.op = "__init__"
    /\ Len(books) = 3
    /\ \E i \in DOMAIN books : books[i].status = StrV(CheckedOut)
    /\ \E i \in DOMAIN books : books[i].status = StrV(Available)

\* The file holds a list of entries, each with the five keys and a value of
\* the expected type under each
ExpectedStructure(file) ==
    /\ file.kind = "json"
    /\ file.data.t = "list"
    /\ \A i \in DOMAIN file.data.v :
           LET entry == file.data.v[i]
           IN  /\ entry.t = "dict"
               /\ \A k \in DOMAIN BookKeys : SubscriptRaises(entry, BookKeys[k]) = "none"
               /\ Subscript(entry, "id").t = "int"
               /\ Subscript(entry, "title").t = "str"
               /\ Subscript(entry, "author").t = "str"
               /\ Subscript(entry, "year").t = "int"
               /\ Subscript(entry, "status") \in EnumStatuses

\* C5: building a Library always completes: on no file books is empty, and on
\* a file that does not hold the expected structure (undecodable as a whole,
\* or with an entry that lacks a field or has one of the wrong type) the
\* warning is printed and books is empty.
C5_ConstructorAlwaysCompletes ==
    call.op = "__init__" =>
        /\ alive
        /\ storage.kind = "absent" => books = <<>>
        /\ (storage.kind # "absent" /\ ~ExpectedStructure(storage)) =>
               (books = <<>> /\ Has(out, "load_warning"))

\* C6: search_books lists, in the order of books, exactly the books for which
\* at least one given criterion (title, author, year) equals the book's
\* field, both taken as text without regard to case; it reports that none was
\* found exactly when it lists none.
C6_SearchListsBooksMeetingAnyCriterion ==
    (alive /\ call.op = "search_books") =>
        /\ results = SelectSeq(books, LAMBDA b : MeetsOneCriterion(b, call.criteria))
        /\ (out = <<"none_found">>) <=> (results = <<>>)

\* A search on two criteria has listed a book that meets only one of them,
\* and has left out a book that meets neither
C6_Witness ==
    /\ alive
    /\ call.op = "search_books"
    /\ Len(call.criteria) = 2
    /\ \E i \in DOMAIN results :
           \E k \in DOMAIN call.criteria :
               ~EqualIgnoringCase(FieldText(results[i], call.criteria[k][1]),
                                  call.criteria[k][2])
    /\ Len(results) < Len(books)

\* C7: add_book appends a book (with id next_id, the given title and author,
\* the value of the year text and the default status) and increments next_id
\* exactly when the year text is a text of decimal digits whose value lies in
\* (0, CurrentYear]; on any other year text it reports the ValueError and
\* changes neither books, next_id nor the file.
C7_AddBookExactlyOnYearInRange ==
    [][call'.op = "add_book" =>
          IF YearTextInRange(call'.year)
          THEN /\ books' = Append(books,
                       [id |-> IntV(next_id), title |-> StrV(call'.title),
                        author |-> StrV(call'.author),
                        year |-> IntV(IntOf(call'.year)),
                        status |-> StrV(Available)])
               /\ next_id' = next_id + 1
               /\ Has(out', "added")
          ELSE /\ UNCHANGED <<books, next_id, storage>>
               /\ out' \in {<<"invalid_year">>, <<"invalid_literal">>}]_vars

\* add_book has refused the year after the current one, on a Library that
\* holds books
C7_Witness ==
    /\ alive
    /\ call.op = "add_book"
    /\ call.year = StrOfNat(CurrentYear + 1)
    /\ out = <<"invalid_year">>
    /\ books # <<>>

\* C8: remove_book leaves every book with another id in books, unmodified and
\* in the same order, and removes the book with the id; when no book has the
\* id, books, next_id and the file are unchanged and not-found is reported.
C8_RemoveBookFrame ==
    [][call'.op = "remove_book" =>
          /\ books' = SelectSeq(books, LAMBDA b : b.id # IntV(call'.book_id))
          /\ next_id' = next_id
          /\ IF Holds(books, call'.book_id)
             THEN Has(out', "removed")
             ELSE UNCHANGED <<books, next_id, storage>> /\ out' = <<"not_found">>]_vars

\* remove_book has removed the second of three books
C8_Witness ==
    /\ alive
    /\ call.op = "remove_book"
    /\ call.book_id = 2
    /\ Has(out, "removed")
    /\ IdsOf(books) = <<IntV(1), IntV(3)>>

\* C9: update_status with a status of the enumeration on the id of a book
\* changes only the status of that book (its other fields, the other books,
\* their order and next_id are unchanged), and the file holds the new status
\* when the call returns.
C9_UpdateStatusChangesOnlyStatusAndPersists ==
    [][(/\ call'.op = "update_status"
        /\ call'.new_status \in {Available, CheckedOut}
        /\ Holds(books, call'.book_id)) =>
          /\ next_id' = next_id
          /\ Len(books') = Len(books)
          /\ \A i \in DOMAIN books :
                 books'[i] = IF books[i].id = IntV(call'.book_id)
                             THEN [books[i] EXCEPT !.status = StrV(call'.new_status)]
                             ELSE books[i]
          /\ ReloadsAs(storage', books')]_vars

\* C10: the status of every book in memory, and of every entry the program
\* has written to the file, is one of the two values of the enumeration, also
\* after the books were loaded from the file.
C10_StatusAlwaysInEnumeration ==
    alive =>
        /\ \A i \in DOMAIN books : books[i].status \in EnumStatuses
        /\ (ReportsSuccess(out) /\ storage.kind = "json") =>
               \A i \in DOMAIN storage.data.v :
                   Subscript(storage.data.v[i], "status") \in EnumStatuses

====
